---- MODULE Spec2Model ----
(***************************************************************************)
(* Electrum Personal Server: the session loop, the request dispatcher and  *)
(* the heartbeats of electrumpersonalserver/server/common.py, with the     *)
(* transaction monitor it drives and the bitcoin node it queries.          *)
(*                                                                         *)
(* Protocol versions are kept in tenths (1.4 is 14).  A block is named by  *)
(* its hash, a small integer.  A script's history is named by an integer,  *)
(* 0 being the empty history.  The wallet's byte stream is a sequence of   *)
(* tokens: a token is one complete JSON object or one newline.             *)
(***************************************************************************)
EXTENDS Integers, Sequences, FiniteSets, TLC

VARIABLES
    pc,                     \* where the server process stands
    sock,                   \* the wallet socket: "none", "tls" or "closed"
    printed_error_msg,      \* main(): the startup error was logged
    bestblockhash,          \* module global bestblockhash[0]
    protocol_version,       \* module global protocol_version[0]
    subscribed_to_headers,  \* module global subscribed_to_headers[0]
    are_headers_raw,        \* module global are_headers_raw[0]
    txid_blockhash_map,     \* module global txid_blockhash_map
    recv_buffer,            \* run_electrum_server: recv_buffer
    line,                   \* run_electrum_server: the line taken for dispatch
    subscribed,             \* monitor: subscription flag of each script
    address_history,        \* monitor: history snapshot of each script
    node_tip,               \* node: best block hash
    node_history,           \* node: current history of each script
    mempool,                \* node: getrawmempool, fee and size of each transaction
    search,                 \* rescan: the frame of search_for_block_height_of_date
    nsent,                  \* wallet: requests sent in this session
    chain_changed,          \* the chain changed since the last completed connected heartbeat
    ev,                     \* what the latest step did
    query,                  \* the request the latest step handled
    out,                    \* the messages the latest step wrote to the wallet socket
    updated_scripthashes,   \* what the latest connected heartbeat's polling step returned
    sent_header             \* the block of the header message last written to this wallet

vars == <<pc, sock, printed_error_msg, bestblockhash, protocol_version,
          subscribed_to_headers, are_headers_raw, recv_buffer, line, subscribed,
          address_history, node_tip, node_history, nsent, chain_changed, ev,
          query, out, updated_scripthashes, txid_blockhash_map, sent_header,
          mempool, search>>

\* everything but the frame of the date search
server_vars == <<pc, sock, printed_error_msg, bestblockhash, protocol_version,
                 subscribed_to_headers, are_headers_raw, recv_buffer, line,
                 subscribed, address_history, node_tip, node_history, nsent,
                 chain_changed, ev, query, out, updated_scripthashes,
                 txid_blockhash_map, sent_header, mempool>>

---------------------------------------------------------------------------
(* Bounds of the model. *)

MaxReq == 2       \* requests one wallet session sends
MaxChunk == 3     \* tokens one recv returns
MaxBuf == 3       \* tokens the receive buffer holds
NumBlocks == 2    \* distinct block hashes the node can report as its tip
MaxHist == 1      \* distinct non-empty histories of a script
MaxTx == 1        \* transactions in a block
MaxPool == 3      \* transactions in the node's mempool
MaxBest == 2      \* height of the best block the date search starts from

(* Program constants. *)

SERVER_PROTOCOL_VERSION_MAX == 14
SERVER_PROTOCOL_VERSION_MIN == 11
None == 0
MAX_CHUNK_SIZE == 2016
RETARGET_INTERVAL == 2016

\* the frame of the date search before the call: nothing to search in
NoSearch ==
    [at |-> "idle", times |-> <<>>, target_time |-> 0, first_height |-> 0,
     last_height |-> 0, height |-> None, rounds |-> 0]

Min(a, b) == IF a <= b THEN a ELSE b
Max(a, b) == IF a >= b THEN a ELSE b

---------------------------------------------------------------------------
(* The wire. *)

NL == [nl |-> TRUE]
NoQuery == [nl |-> FALSE, id |-> 0, method |-> "", params |-> <<>>]

Body(method, params) == [nl |-> FALSE, method |-> method, params |-> params]
Scalar(v) == [list |-> FALSE, v |-> v]
Pair(lo, hi) == [list |-> TRUE, min |-> lo, max |-> hi]

Version(v) == Body("server.version", <<"EW", v>>)
HeadersSubscribe(params) == Body("blockchain.headers.subscribe", params)
ScripthashSubscribe(s) == Body("blockchain.scripthash.subscribe", <<s>>)
Ping == Body("server.ping", <<>>)
Unknown == Body("server.features", <<>>)
TransactionGet(txid) == Body("blockchain.transaction.get", <<txid>>)
GetMerkle(txid) == Body("blockchain.transaction.get_merkle", <<txid>>)
IdFromPos(params) == Body("blockchain.transaction.id_from_pos", params)
BlockGetHeader(height) == Body("blockchain.block.get_header", <<height>>)
BlockHeader(height) == Body("blockchain.block.header", <<height>>)
FeeHistogram == Body("mempool.get_fee_histogram", <<>>)
BlockHeaders(start_height, count) == Body("blockchain.block.headers", <<start_height, count>>)
GetChunk(index) == Body("blockchain.block.get_chunk", <<index>>)

IsNewline(t) == t.nl

\* recv_buffer.find(b'\n'): the index of the first newline, 0 for -1
find(buf) ==
    IF \E i \in 1..Len(buf) : IsNewline(buf[i])
    THEN CHOOSE i \in 1..Len(buf) :
            IsNewline(buf[i]) /\ \A j \in 1..(i - 1) : ~IsNewline(buf[j])
    ELSE 0

\* bytes that are not UTF-8, where a wallet would write a request
Undecodable == Body("\\xff", <<>>)

\* line 435, line.decode("utf-8"): UnicodeDecodeError when a byte is not UTF-8
decodes(l) == \A i \in 1..Len(l) : l[i].method # Undecodable.method

\* json.loads(line): a line parses when it is exactly one JSON object
Parses(l) == Len(l) = 1

\* a chunk of the wallet's stream: its requests are numbered as the wallet sends them
Requests(bodies, i) == Cardinality({j \in 1..i : ~IsNewline(bodies[j])})

Stamp(bodies, n) ==
    [i \in 1..Len(bodies) |->
        IF IsNewline(bodies[i]) THEN NL
        ELSE [nl |-> FALSE, id |-> n + Requests(bodies, i),
              method |-> bodies[i].method, params |-> bodies[i].params]]

Chunks(Reqs) ==
    UNION {[1..k -> Reqs \cup {NL}] : k \in 1..MaxChunk}

\* send_response, send_error, send_update: the object written
Response(q, result) == [jsonrpc |-> "2.0", result |-> result, id |-> q.id]
Error(q, error) == [jsonrpc |-> "2.0", error |-> error, id |-> q.id]
Update(method, params) == [jsonrpc |-> "2.0", method |-> method, params |-> params]

IsUpdate(m) == "id" \notin DOMAIN m
IsHeadersUpdate(m) == IsUpdate(m) /\ m.method = "blockchain.headers.subscribe"
IsScripthashUpdate(m) == IsUpdate(m) /\ m.method = "blockchain.scripthash.subscribe"

---------------------------------------------------------------------------
(* The transaction monitor. *)

\* hashes.get_status_electrum: the empty history has the empty status
get_status_electrum(h) == IF h = 0 THEN <<>> ELSE <<"sha256", h>>

get_electrum_history_hash(history, s) == get_status_electrum(history[s])

subscribe_address(s) == s \in DOMAIN address_history

unsubscribe_all_addresses(subs) == [s \in DOMAIN subs |-> FALSE]

\* the scripts whose history differs from the snapshot of the previous call
check_for_updated_txes ==
    {s \in DOMAIN address_history : node_history[s] # address_history[s]}

\* the orders in which a set can be iterated
Orders(S) ==
    {o \in [1..Cardinality(S) -> S] : \A i, j \in 1..Cardinality(S) : o[i] = o[j] => i = j}

---------------------------------------------------------------------------
(* The node's RPC.  The chain is linear: the block at height h has hash    *)
(* h + 1 and the tip's hash is node_tip, so the heights are                *)
(* 0 .. node_tip - 1.  A transaction is named by its block and its         *)
(* position in it.  What an RPC returns is kept as the call it answers,    *)
(* so that a reply shows which call produced it.                           *)

\* getrawmempool(True): the details of each transaction, the fee in satoshi.
\* The sizes fill half a bin or more than a whole one; the fees give rates
\* that differ and rates that are shared.
Sizes == {50000, 60000, 120000}
Fees == {120000, 240000, 600000}
Details == [fee : Fees, size : Sizes]
Mempools == UNION {[1..k -> Details] : k \in 0..MaxPool}

\* an empty mempool
NoPool == <<>>

\* The chains looked at: a few blocks, and as many on top of a full chunk.
Short == 1..NumBlocks
Tall == {MAX_CHUNK_SIZE + h : h \in Short}

HasBlock(height) == height \in 0..(node_tip - 1)
getblockhash(height) == height + 1
block_height(blockhash) == blockhash - 1
getblock_tx(blockhash) == [i \in 1..MaxTx |-> <<blockhash, i - 1>>]
gettransaction(txid) ==
    [hex |-> [rpc |-> "gettransaction", params |-> <<txid>>], blockhash |-> txid[1]]
getrawtransaction(txid, blockhash) ==
    [rpc |-> "getrawtransaction", params |-> <<txid, FALSE, blockhash>>]
gettxoutproof(txid, blockhash) ==
    [rpc |-> "gettxoutproof", params |-> <<<<txid>>, blockhash>>]

\* merkleproof.convert_core_to_electrum_merkle_proof of a proof the node gave
convert_core_to_electrum_merkle_proof(core_proof) ==
    LET txid == core_proof.params[1][1]
    IN  [pos |-> txid[2], merkle |-> <<"branch", core_proof>>,
         merkleroot |-> <<"merkleroot", core_proof.params[2]>>]

\* How the node and the proof converter can answer a handler: "ok"; "error",
\* the JsonRpcError of the handler's first call; and, for the handlers that
\* go on, "errors" (the second call fails too), "unconfirmed" (gettransaction
\* returns no blockhash), "no_proof" (gettxoutproof fails), "bad_proof" (the
\* converter rejects the blob) and "wrong_root" (the recomputed root differs).
\* What blockchain.block.headers asks is what the chain holds: the node is
\* taken to answer it.
RpcAnswers(q) ==
    CASE q.method = "blockchain.transaction.get" -> {"ok", "error", "errors"}
      [] q.method = "blockchain.transaction.get_merkle" ->
            {"ok", "error", "unconfirmed", "no_proof", "bad_proof", "wrong_root"}
      [] q.method = "blockchain.transaction.id_from_pos" ->
            {"ok", "error", "no_proof", "bad_proof"}
      [] q.method = "blockchain.block.headers" -> {"ok"}
      [] OTHER -> {"ok", "error"}

---------------------------------------------------------------------------
(* The header engine. *)

\* line 333 left out: the structured header, raw or not
get_block_header_structured(blockhash, raw) ==
    [block_height |-> block_height(blockhash),
     merkle_root |-> <<"merkleroot", blockhash>>]

\* lines 327-348
get_block_header(blockhash, raw) ==
    IF raw
    THEN [hex |-> <<"header", blockhash>>, height |-> block_height(blockhash)]
    ELSE [block_height |-> block_height(blockhash),
          merkle_root |-> <<"merkleroot", blockhash>>]

\* getblockchaininfo()["headers"] of a node that has the blocks of its headers
tip_height == block_height(node_tip)

\* "nextblockhash" in header
has_next(blockhash) == blockhash \in 1..(node_tip - 1)

\* the headers read, whatever the count asked
get_block_headers_hex_to_tip(start_height, count) ==
    IF ~HasBlock(start_height)
    THEN [headers_hex |-> <<>>, n |-> 0]
    ELSE LET the_hash == getblockhash(start_height)
             result == [k \in 1..(node_tip - the_hash + 1) |->
                            get_block_header(the_hash + k - 1, TRUE).hex]
         IN  [headers_hex |-> result, n |-> (Len(result) * 80) \div 80]

\* lines 361-383.  The loop is kept as the set of its passes: pass i of
\* range(count) is made when pass i - 1 read a header with a nextblockhash,
\* and it reads the block i places after the first.  result holds one frame
\* of 80 bytes for each pass.
get_block_headers_hex(start_height, count) ==
    IF ~HasBlock(start_height)
    THEN [headers_hex |-> <<>>, n |-> 0]
    ELSE LET the_hash == getblockhash(start_height)
             passes == {i \in 0..(count - 1) : i = 0 \/ has_next(the_hash + i - 1)}
             result == [k \in 1..Cardinality(passes) |->
                            get_block_header(the_hash + k - 1, TRUE).hex]
         IN  [headers_hex |-> result, n |-> (Len(result) * 80) \div 80]

\* a hash the node did not return: the genesis block's, whatever the tip
get_current_header_of_genesis(raw) ==
    [new_bestblockhash |-> getblockhash(0), header |-> get_block_header(node_tip, raw)]

\* lines 350-353
get_current_header(raw) ==
    [new_bestblockhash |-> node_tip, header |-> get_block_header(node_tip, raw)]

\* line 358 left out: the tip seen is not stored
check_for_new_blockchain_tip_not_stored(raw) ==
    LET cur == get_current_header(raw)
    IN  [is_tip_new |-> bestblockhash # cur.new_bestblockhash,
         bestblockhash |-> bestblockhash,
         header |-> cur.header]

check_for_new_blockchain_tip(raw) ==
    LET cur == get_current_header(raw)
    IN  [is_tip_new |-> bestblockhash # cur.new_bestblockhash,
         bestblockhash |-> cur.new_bestblockhash,
         header |-> cur.header]

---------------------------------------------------------------------------
(* The dispatcher.  A handler's effect: how it ended ("response" and       *)
(* "error" hand one object to sendall, "none" writes nothing, "refused"    *)
(* raises ConnectionRefusedError, "uncaught" raises an exception that the  *)
(* session loop does not catch) and the globals as it leaves them.         *)

Effect(kind, payload) ==
    [kind |-> kind, payload |-> payload,
     protocol_version |-> protocol_version,
     are_headers_raw |-> are_headers_raw,
     txid_blockhash_map |-> txid_blockhash_map,
     subscribed_to_headers |-> subscribed_to_headers,
     subscribed |-> subscribed]

\* an RPC the handler does not guard: JsonRpcError leaves handle_query
Unguarded(rpc_ok, e) == IF rpc_ok THEN e ELSE [e EXCEPT !.kind = "uncaught", !.payload = <<>>]

server_version(q) ==
    LET client_protocol_version == q.params[2]
    IN  IF client_protocol_version.list
        THEN \* client_min is read before it is bound: UnboundLocalError
             Effect("uncaught", <<>>)
        ELSE LET client_min == client_protocol_version.v
                 client_max == client_min
                 negotiated == Min(client_max, SERVER_PROTOCOL_VERSION_MAX)
             IN  IF negotiated < Max(client_min, SERVER_PROTOCOL_VERSION_MIN)
                 THEN [Effect("refused", <<>>) EXCEPT !.protocol_version = negotiated]
                 ELSE [Effect("response", <<"ElectrumPersonalServer", negotiated>>)
                        EXCEPT !.protocol_version = negotiated]

headers_raw(params) ==
    IF protocol_version \in {12, 13}
    THEN IF Len(params) > 0 THEN params[1] ELSE protocol_version # 12
    ELSE IF protocol_version = 14 THEN TRUE ELSE are_headers_raw

blockchain_headers_subscribe(q, rpc_ok) ==
    LET raw == headers_raw(q.params)
    IN  Unguarded(rpc_ok,
            [Effect("response", get_current_header(raw).header)
                EXCEPT !.are_headers_raw = raw, !.subscribed_to_headers = TRUE])

\* the status replied, and no script marked
blockchain_scripthash_subscribe_unmarked(q) ==
    LET scrhash == q.params[1]
    IN  IF subscribe_address(scrhash)
        THEN Effect("response", get_electrum_history_hash(address_history, scrhash))
        ELSE Effect("response", get_status_electrum(0))

\* lines 154-164
blockchain_scripthash_subscribe(q) ==
    LET scrhash == q.params[1]
    IN  IF subscribe_address(scrhash)
        THEN [Effect("response", get_electrum_history_hash(address_history, scrhash))
                EXCEPT !.subscribed = [subscribed EXCEPT ![scrhash] = TRUE]]
        ELSE Effect("response", get_status_electrum(0))

\* lines 119-131.  The second call is made inside the except clause of the
\* first: its JsonRpcError is not caught.
blockchain_transaction_get(q, rpc) ==
    LET txid == q.params[1]
    IN  IF rpc = "ok"
        THEN Effect("response", gettransaction(txid).hex)
        ELSE IF txid \in DOMAIN txid_blockhash_map
             THEN IF rpc = "error"
                  THEN Effect("response", getrawtransaction(txid, txid_blockhash_map[txid]))
                  ELSE Effect("uncaught", <<>>)
             ELSE Effect("error", [message |-> "txid not found"])

InvalidProof(txid) == [block_height |-> 1, pos |-> 0, merkle |-> <<txid>>]

\* lines 132-153.  tx["blockhash"] of an unconfirmed transaction is a
\* KeyError, which the except clause of line 146 does not name.
blockchain_transaction_get_merkle(q, rpc) ==
    LET txid == q.params[1]
        tx == gettransaction(txid)
        electrum_proof ==
            convert_core_to_electrum_merkle_proof(gettxoutproof(txid, tx.blockhash))
    IN  CASE rpc = "ok" ->
                Effect("response",
                       [block_height |-> get_block_header(tx.blockhash, FALSE).block_height,
                        pos |-> electrum_proof.pos, merkle |-> electrum_proof.merkle])
          [] rpc = "unconfirmed" -> Effect("uncaught", <<>>)
          [] OTHER -> Effect("response", InvalidProof(txid))

OutOfRange(height) == [message |-> <<"height", height, "out of range">>, code |-> -1]

\* lines 188-198
blockchain_block_get_header(q, rpc) ==
    LET height == q.params[1]
    IN  IF rpc = "error" \/ ~HasBlock(height)
        THEN Effect("error", OutOfRange(height))
        ELSE Effect("response", get_block_header(getblockhash(height), FALSE))

\* the header of a height the node has no block for, made up from the height
blockchain_block_header_unchecked(q, rpc) ==
    LET height == q.params[1]
    IN  IF rpc = "error"
        THEN Effect("error", OutOfRange(height))
        ELSE Effect("response", get_block_header(getblockhash(height), TRUE).hex)

\* lines 199-208
blockchain_block_header(q, rpc) ==
    LET height == q.params[1]
    IN  IF rpc = "error" \/ ~HasBlock(height)
        THEN Effect("error", OutOfRange(height))
        ELSE Effect("response", get_block_header(getblockhash(height), TRUE).hex)

\* line 213 left out: the count asked is the count read
blockchain_block_headers_uncapped(q) ==
    LET start_height == q.params[1]
        count == q.params[2]
        got == get_block_headers_hex(start_height, count)
    IN  Effect("response", [hex |-> got.headers_hex, count |-> got.n, max |-> MAX_CHUNK_SIZE])

\* lines 209-216
blockchain_block_headers(q) ==
    LET start_height == q.params[1]
        count == Min(q.params[2], MAX_CHUNK_SIZE)
        got == get_block_headers_hex(start_height, count)
    IN  Effect("response", [hex |-> got.headers_hex, count |-> got.n, max |-> MAX_CHUNK_SIZE])

\* lines 217-226
blockchain_block_get_chunk(q) ==
    LET index == q.params[1]
        next_height == tip_height + 1
        start_height == Min(index * RETARGET_INTERVAL, next_height)
        count == Min(next_height - start_height, RETARGET_INTERVAL)
    IN  Effect("response", get_block_headers_hex(start_height, count).headers_hex)

\* the hint stored under the hash of the node's tip
store_hint_of_tip(txid, blockhash) ==
    [t \in DOMAIN txid_blockhash_map \cup {txid} |->
        IF t = txid THEN node_tip ELSE txid_blockhash_map[t]]

\* line 310: txid_blockhash_map[txid] = blockhash
store_hint(txid, blockhash) ==
    [t \in DOMAIN txid_blockhash_map \cup {txid} |->
        IF t = txid THEN blockhash ELSE txid_blockhash_map[t]]

\* lines 300-321.  block["tx"][tx_pos] past the block is an IndexError and a
\* blob the converter rejects a ValueError; the except clause of line 318
\* names JsonRpcError only.  The hint is stored before the proof is asked for.
blockchain_transaction_id_from_pos(q, rpc) ==
    LET height == q.params[1]
        tx_pos == q.params[2]
        merkle == IF Len(q.params) > 2 THEN q.params[3] ELSE FALSE
        blockhash == getblockhash(height)
        block_tx == getblock_tx(blockhash)
        txid == block_tx[tx_pos + 1]
        stored == store_hint(txid, blockhash)
        core_proof == gettxoutproof(txid, blockhash)
    IN  IF rpc = "error" \/ ~HasBlock(height)
        THEN Effect("error", [message |-> "JsonRpcError"])
        ELSE IF tx_pos + 1 \notin DOMAIN block_tx
        THEN Effect("uncaught", <<>>)
        ELSE IF ~merkle
        THEN [Effect("response", txid) EXCEPT !.txid_blockhash_map = stored]
        ELSE CASE rpc = "no_proof" ->
                    [Effect("error", [message |-> "JsonRpcError"])
                        EXCEPT !.txid_blockhash_map = stored]
               [] rpc = "bad_proof" ->
                    [Effect("uncaught", <<>>) EXCEPT !.txid_blockhash_map = stored]
               [] OTHER ->
                    [Effect("response",
                            [tx_hash |-> txid,
                             merkle |-> convert_core_to_electrum_merkle_proof(core_proof).merkle])
                        EXCEPT !.txid_blockhash_map = stored]

\* line 240: 1e8*details["fee"] // details["size"]
fee_rate(details) == details.fee \div details.size

RECURSIVE sum_of_sizes(_, _)
sum_of_sizes(pool, txids) ==
    IF txids = {} THEN 0
    ELSE LET txid == CHOOSE t \in txids : TRUE
         IN  pool[txid].size + sum_of_sizes(pool, txids \ {txid})

\* lines 238-241: fee_hist[fee_rate] += details["size"]
fee_hist(pool) ==
    [rate \in {fee_rate(pool[txid]) : txid \in DOMAIN pool} |->
        sum_of_sizes(pool, {txid \in DOMAIN pool : fee_rate(pool[txid]) = rate})]

RECURSIVE sorted(_)
sorted(items) ==
    IF items = {} THEN <<>>
    ELSE LET least == CHOOSE a \in items : \A b \in items : a[1] <= b[1]
         IN  <<least>> \o sorted(items \ {least})

reversed(l) == [i \in 1..Len(l) |-> l[Len(l) + 1 - i]]

\* line 242 without reversed(): the rates ascend
fee_hist_items_ascending(hist) ==
    sorted({<<rate, hist[rate]>> : rate \in DOMAIN hist})

\* line 242: list(reversed(sorted(fee_hist.items())))
fee_hist_items(hist) ==
    reversed(sorted({<<rate, hist[rate]>> : rate \in DOMAIN hist}))

\* lines 247-253, from item i of l on.  binsize *= 1.1 is exact in tenths of
\* a byte for the first five bins, which is more bins than a mempool of the
\* model fills.
RECURSIVE sweep(_, _, _, _, _, _)
sweep(l, i, out_, size, r, binsize) ==
    IF i > Len(l) THEN out_
    ELSE LET fee == l[i][1]
             size_ == size + l[i][2]
         IN  IF size_ + r > binsize
             THEN sweep(l, i + 1, Append(out_, <<fee, size_>>), 0,
                        r + size_ - binsize, (binsize * 11) \div 10)
             ELSE sweep(l, i + 1, out_, size_, r, binsize)

\* lines 234-255
mempool_get_fee_histogram(q) ==
    Effect("response", sweep(fee_hist_items(fee_hist(mempool)), 1, <<>>, 0, 0, 100000))

\* an error object for a method the server does not know
not_handled_answered(q) == Effect("error", [message |-> "unknown method"])

\* lines 322-325: logged, nothing written
not_handled(q) == Effect("none", <<>>)

handle_query(q, rpc) ==
    CASE q.method = "blockchain.scripthash.subscribe" -> blockchain_scripthash_subscribe(q)
      [] q.method = "server.ping" -> Effect("response", <<"null">>)
      [] q.method = "blockchain.headers.subscribe" ->
            blockchain_headers_subscribe(q, rpc # "error")
      [] q.method = "blockchain.transaction.get" -> blockchain_transaction_get(q, rpc)
      [] q.method = "blockchain.block.get_header" -> blockchain_block_get_header(q, rpc)
      [] q.method = "blockchain.block.header" -> blockchain_block_header(q, rpc)
      [] q.method = "blockchain.block.headers" -> blockchain_block_headers(q)
      [] q.method = "blockchain.block.get_chunk" ->
            Unguarded(rpc # "error", blockchain_block_get_chunk(q))
      [] q.method = "blockchain.transaction.get_merkle" ->
            blockchain_transaction_get_merkle(q, rpc)
      [] q.method = "blockchain.transaction.id_from_pos" ->
            blockchain_transaction_id_from_pos(q, rpc)
      [] q.method = "mempool.get_fee_histogram" ->
            Unguarded(rpc # "error", mempool_get_fee_histogram(q))
      [] q.method = "server.version" -> server_version(q)
      [] OTHER -> not_handled(q)

\* line 105 left out: the headers subscription outlives the session
on_disconnect_keeps_headers(subs) ==
    [subscribed_to_headers |-> subscribed_to_headers,
     subscribed |-> unsubscribe_all_addresses(subs)]

\* on_disconnect: the flags it leaves
on_disconnect(subs) ==
    [subscribed_to_headers |-> FALSE, subscribed |-> unsubscribe_all_addresses(subs)]

---------------------------------------------------------------------------
(* MainInit: the module is loaded and main() starts.  InitOf: main() has   *)
(* read the tip and built the monitor's histories, and enters              *)
(* run_electrum_server.                                                    *)

MainInit(Scripts) ==
    /\ pc = "startup"
    /\ sock = "none"
    /\ printed_error_msg = FALSE
    /\ bestblockhash = None
    /\ protocol_version = 0
    /\ subscribed_to_headers = FALSE
    /\ are_headers_raw = FALSE
    /\ recv_buffer = <<>>
    /\ line = <<>>
    /\ subscribed = [s \in Scripts |-> FALSE]
    /\ address_history = [s \in Scripts |-> 0]
    /\ node_tip = 1
    /\ node_history = [s \in Scripts |-> 0]
    /\ mempool = NoPool
    /\ search = NoSearch
    /\ nsent = 0
    /\ chain_changed = TRUE
    /\ ev = "init"
    /\ query = NoQuery
    /\ out = <<>>
    /\ updated_scripthashes = <<>>
    /\ txid_blockhash_map = [txid \in {} |-> None]
    /\ sent_header = None

InitAt(Scripts, Tips) ==
    /\ mempool = NoPool
    /\ search = NoSearch
    /\ pc = "accept"
    /\ sock = "none"
    /\ printed_error_msg = FALSE
    /\ node_tip \in Tips
    /\ bestblockhash = node_tip
    /\ protocol_version = 0
    /\ subscribed_to_headers = FALSE
    /\ are_headers_raw = FALSE
    /\ recv_buffer = <<>>
    /\ line = <<>>
    /\ subscribed = [s \in Scripts |-> FALSE]
    /\ node_history \in [Scripts -> 0..MaxHist]
    /\ address_history = node_history
    /\ nsent = 0
    /\ chain_changed = TRUE
    /\ ev = "started"
    /\ query = NoQuery
    /\ out = <<>>
    /\ updated_scripthashes = <<>>
    /\ txid_blockhash_map = [txid \in {} |-> None]
    /\ sent_header = None

InitOf(Scripts) == InitAt(Scripts, Short)

\* what a step that handles no request and writes nothing leaves behind
Silent(what) ==
    /\ ev' = what
    /\ query' = NoQuery
    /\ out' = <<>>
    /\ updated_scripthashes' = <<>>

---------------------------------------------------------------------------
(* The node: a new tip (a block or a reorganisation), and activity on a   *)
(* monitored script.  The server reads the node only inside a handler and  *)
(* inside a heartbeat, each one step here, so a change of the node is      *)
(* placed where the server waits or is about to take a line.               *)

Waiting == {"accept", "recv", "dispatch"}

NewTip ==
    /\ UNCHANGED <<txid_blockhash_map, sent_header, mempool, search>>
    /\ pc \in Waiting
    /\ \E h \in IF node_tip \in Short THEN Short ELSE Tall :
        /\ h # node_tip
        /\ node_tip' = h
    /\ chain_changed' = TRUE
    /\ Silent("node")
    /\ UNCHANGED <<pc, sock, printed_error_msg, bestblockhash, protocol_version,
                   subscribed_to_headers, are_headers_raw, recv_buffer, line,
                   subscribed, address_history, node_history, nsent>>

Activity ==
    /\ UNCHANGED <<txid_blockhash_map, sent_header, mempool, search>>
    /\ pc \in Waiting
    /\ \E s \in DOMAIN node_history, h \in 0..MaxHist :
        /\ h # node_history[s]
        /\ node_history' = [node_history EXCEPT ![s] = h]
    /\ chain_changed' = TRUE
    /\ Silent("node")
    /\ UNCHANGED <<pc, sock, printed_error_msg, bestblockhash, protocol_version,
                   subscribed_to_headers, are_headers_raw, recv_buffer, line,
                   subscribed, address_history, node_tip, nsent>>

---------------------------------------------------------------------------
(* main(): the startup read of the tip, then the monitor's first snapshot  *)
(* and the listening socket.                                               *)

\* line 649 negated: the later failed reads are logged, the first is not
startup_failure_logged_later(printed) ==
    IF printed THEN "startup_error_logged" ELSE "startup_retry"

\* lines 649-651: the first failed read is logged, the later ones are not
startup_failure(printed) == IF ~printed THEN "startup_error_logged" ELSE "startup_retry"

Startup ==
    /\ UNCHANGED <<txid_blockhash_map, sent_header, mempool, search>>
    /\ pc = "startup"
    /\ \E rpc_ok \in BOOLEAN :
        IF rpc_ok
        THEN /\ bestblockhash' = node_tip
             /\ address_history' = node_history
             /\ pc' = "accept"
             /\ Silent("started")
             /\ UNCHANGED printed_error_msg
        ELSE /\ printed_error_msg' = TRUE
             /\ Silent(startup_failure(printed_error_msg))
             /\ UNCHANGED <<bestblockhash, address_history, pc>>
    /\ UNCHANGED <<sock, protocol_version, subscribed_to_headers, are_headers_raw,
                   recv_buffer, line, subscribed, node_tip, node_history, nsent,
                   chain_changed>>

---------------------------------------------------------------------------
(* run_electrum_server: the accept loop. *)

\* a second thread of control accepts while a wallet is being served
accepting_while_connected == pc \in {"accept", "recv"}

\* lines 401-403: the server is in the loop around server_sock.accept(), which
\* it enters only with sock == None
accepting == pc = "accept"

\* accept timed out: on_heartbeat_listening
ListeningHeartbeat ==
    /\ UNCHANGED <<txid_blockhash_map, sent_header, mempool, search>>
    /\ accepting
    /\ address_history' = node_history
    /\ Silent("listening_heartbeat")
    /\ UNCHANGED <<pc, sock, printed_error_msg, bestblockhash, protocol_version,
                   subscribed_to_headers, are_headers_raw, recv_buffer, line,
                   subscribed, node_tip, node_history, nsent, chain_changed>>

\* lines 404-407 left out: any peer is wrapped
refused_by_tls_only(allowed, tls) == tls = "sslerror"

\* lines 404-407, 414: ConnectionRefusedError for a peer outside the
\* allow-list, ssl.SSLError from wrap_socket
refused(allowed, tls) == ~allowed \/ tls = "sslerror"

\* a peer connects: the allow-list, then the TLS handshake
Accept ==
    /\ sent_header' = None
    /\ UNCHANGED <<txid_blockhash_map, mempool, search>>
    /\ accepting
    /\ \E allowed \in BOOLEAN, tls \in {"ok", "sslerror", "oserror"} :
        LET turned_away == refused(allowed, tls)
            failed == allowed /\ tls = "oserror"
            d == on_disconnect(subscribed)
        IN  /\ pc' = IF turned_away \/ failed THEN "accept" ELSE "recv"
            /\ sock' = IF turned_away \/ failed THEN "closed" ELSE "tls"
            /\ subscribed_to_headers' =
                    IF failed THEN d.subscribed_to_headers ELSE subscribed_to_headers
            /\ subscribed' = IF failed THEN d.subscribed ELSE subscribed
            /\ Silent(IF ~allowed THEN "not_allowed"
                      ELSE IF turned_away THEN "turned_away"
                      ELSE IF failed THEN "accept_failed" ELSE "connected")
    /\ recv_buffer' = <<>>
    /\ UNCHANGED <<printed_error_msg, bestblockhash, protocol_version, are_headers_raw,
                   line, address_history, node_tip, node_history, nsent, chain_changed>>

---------------------------------------------------------------------------
(* run_electrum_server: the connected loop. *)

\* sendall on the wallet socket: written, OSError, or socket.timeout
WriteOutcomes == {"ok", "oserror", "timeout"}

\* after a line was handled: the while loop goes on while a newline is buffered
AfterLine(buf) == IF find(buf) # 0 THEN "dispatch" ELSE "recv"

\* recv returned data: it is appended, and the lines in it are dispatched
RecvData(Reqs) ==
    /\ UNCHANGED <<txid_blockhash_map, sent_header, mempool, search>>
    /\ pc = "recv"
    /\ \E bodies \in Chunks(Reqs) :
        /\ Len(recv_buffer) + Len(bodies) <= MaxBuf
        /\ nsent + Requests(bodies, Len(bodies)) <= MaxReq
        /\ recv_buffer' = recv_buffer \o Stamp(bodies, nsent)
        /\ nsent' = nsent + Requests(bodies, Len(bodies))
    /\ pc' = AfterLine(recv_buffer')
    /\ Silent("recv")
    /\ UNCHANGED <<sock, printed_error_msg, bestblockhash, protocol_version,
                   subscribed_to_headers, are_headers_raw, line, subscribed,
                   address_history, node_tip, node_history, chain_changed>>

\* recv returned nothing (EOFError) or raised OSError: the handler of lines
\* 439-450 closes the socket and runs on_disconnect
RecvFailed ==
    /\ sent_header' = None
    /\ UNCHANGED <<txid_blockhash_map, mempool, search>>
    /\ pc = "recv"
    /\ \E how \in {"eof", "recv_error"} : Silent(how)
    /\ LET d == on_disconnect(subscribed)
       IN  /\ subscribed_to_headers' = d.subscribed_to_headers
           /\ subscribed' = d.subscribed
    /\ pc' = "accept"
    /\ sock' = "closed"
    /\ recv_buffer' = <<>>
    /\ nsent' = 0
    /\ UNCHANGED <<printed_error_msg, bestblockhash, protocol_version, are_headers_raw,
                   line, address_history, node_tip, node_history, chain_changed>>

\* recv timed out: the except clause of line 437 runs the connected heartbeat
RecvTimeout ==
    /\ UNCHANGED <<txid_blockhash_map, sent_header, mempool, search>>
    /\ pc = "recv"
    /\ pc' = "heartbeat"
    /\ Silent("recv_timeout")
    /\ UNCHANGED <<sock, printed_error_msg, bestblockhash, protocol_version,
                   subscribed_to_headers, are_headers_raw, recv_buffer, line,
                   subscribed, address_history, node_tip, node_history, nsent,
                   chain_changed>>

\* lines 432-434: the first line leaves the buffer
TakeLine ==
    /\ UNCHANGED <<txid_blockhash_map, sent_header, mempool, search>>
    /\ pc = "dispatch"
    /\ LET lb == find(recv_buffer)
       IN  /\ line' = SubSeq(recv_buffer, 1, lb - 1)
           /\ recv_buffer' = SubSeq(recv_buffer, lb + 1, Len(recv_buffer))
    /\ pc' = "handle"
    /\ Silent("take_line")
    /\ UNCHANGED <<sock, printed_error_msg, bestblockhash, protocol_version,
                   subscribed_to_headers, are_headers_raw, subscribed,
                   address_history, node_tip, node_history, nsent, chain_changed>>

\* how the call of handle_query at line 435 ends, seen from the session loop
Ending(e, snd) ==
    CASE e.kind \in {"response", "error"} /\ snd = "ok" -> "replied"
      [] e.kind \in {"response", "error"} /\ snd = "oserror" -> "write_failed"
      [] e.kind \in {"response", "error"} /\ snd = "timeout" -> "write_timeout"
      [] e.kind = "none" -> "no_reply"
      [] OTHER -> e.kind

Message(q, e) == IF e.kind = "error" THEN Error(q, e.payload) ELSE Response(q, e.payload)

\* line 435: handle_query on the line taken
HandleQuery ==
    /\ pc = "handle"
    /\ \E rpc \in RpcAnswers(IF Parses(line) THEN line[1] ELSE NoQuery),
          snd \in WriteOutcomes :
        LET q == IF Parses(line) THEN line[1] ELSE NoQuery
            e == IF ~decodes(line) THEN Effect("uncaught", <<>>)
                 ELSE IF Parses(line) THEN handle_query(q, rpc)
                 ELSE Effect("malformed", <<>>)
            how == Ending(e, snd)
            ends == how \in {"refused", "malformed", "write_failed"}
            d == on_disconnect(e.subscribed)
        IN  /\ protocol_version' = e.protocol_version
            /\ are_headers_raw' = e.are_headers_raw
            /\ txid_blockhash_map' = e.txid_blockhash_map
            /\ sent_header' =
                    IF ends THEN None
                    ELSE IF how = "replied" /\ q.method = "blockchain.headers.subscribe"
                         THEN node_tip ELSE sent_header
            /\ subscribed_to_headers' =
                    IF ends THEN d.subscribed_to_headers ELSE e.subscribed_to_headers
            /\ subscribed' = IF ends THEN d.subscribed ELSE e.subscribed
            /\ pc' = CASE how = "uncaught" -> "crashed"
                       [] ends -> "accept"
                       [] how = "write_timeout" -> "heartbeat"
                       [] OTHER -> AfterLine(recv_buffer)
            /\ sock' = IF ends \/ how = "uncaught" THEN "closed" ELSE sock
            /\ recv_buffer' = IF ends THEN <<>> ELSE recv_buffer
            /\ nsent' = IF ends THEN 0 ELSE nsent
            /\ ev' = how
            /\ query' = q
            /\ out' = IF how = "replied" THEN <<Message(q, e)>> ELSE <<>>
    /\ line' = <<>>
    /\ updated_scripthashes' = <<>>
    /\ UNCHANGED <<printed_error_msg, bestblockhash, address_history, node_tip, mempool, search,
                   node_history, chain_changed>>

---------------------------------------------------------------------------
(* on_heartbeat_connected. *)

HeadersUpdate(header) == Update("blockchain.headers.subscribe", <<header>>)

ScripthashUpdate(history, scrhash) ==
    Update("blockchain.scripthash.subscribe",
           <<scrhash, get_electrum_history_hash(history, scrhash)>>)

\* the test of line 94 left out: the tip is pushed to every wallet
tip_updates_unsubscribed(chk) ==
    IF chk.is_tip_new THEN <<HeadersUpdate(chk.header)>> ELSE <<>>

\* lines 91-96: the update sent for the tip, if any
tip_updates(chk) ==
    IF chk.is_tip_new /\ subscribed_to_headers THEN <<HeadersUpdate(chk.header)>> ELSE <<>>

\* the loop of line 98 run backwards
scripthash_updates_reversed(history, updated) ==
    [i \in 1..Len(updated) |-> ScripthashUpdate(history, updated[Len(updated) + 1 - i])]

\* lines 98-102: one update per script the polling step returned, in its order
scripthash_updates(history, updated) ==
    [i \in 1..Len(updated) |-> ScripthashUpdate(history, updated[i])]

\* ev of a connected heartbeat that ran to its end; it is "quiet" when the
\* chain did not change since the connected heartbeat before it
HeartbeatDone == ev \in {"heartbeat", "quiet_heartbeat"}

\* The heartbeat writes its updates one by one; the first write that fails
\* (OSError or timeout) leaves the except clause and ends the session, and
\* the polling step is not reached when the tip's update fails.  A
\* JsonRpcError of the tip check is not caught anywhere.
OnHeartbeatConnected ==
    /\ pc = "heartbeat"
    /\ \E rpc_ok \in BOOLEAN :
        IF ~rpc_ok
        THEN /\ pc' = "crashed"
             /\ sock' = "closed"
             /\ Silent("uncaught")
             /\ UNCHANGED <<bestblockhash, subscribed_to_headers, recv_buffer, subscribed,
                            address_history, nsent, chain_changed, sent_header>>
        ELSE LET chk == check_for_new_blockchain_tip(are_headers_raw)
                 first == tip_updates(chk)
             IN  \E updated \in Orders(check_for_updated_txes) :
                 \E written \in 0..(Len(first) + Len(updated)) :
                    LET polled == written >= Len(first)
                        all == first \o scripthash_updates(node_history, updated)
                        done == written = Len(all)
                        d == on_disconnect(subscribed)
                    IN  /\ bestblockhash' = chk.bestblockhash
                        /\ address_history' = IF polled THEN node_history ELSE address_history
                        /\ updated_scripthashes' = IF polled THEN updated ELSE <<>>
                        /\ out' = SubSeq(all, 1, written)
                        /\ query' = NoQuery
                        /\ ev' = IF ~done THEN "write_failed"
                                 ELSE IF chain_changed THEN "heartbeat" ELSE "quiet_heartbeat"
                        /\ pc' = IF done THEN "recv" ELSE "accept"
                        /\ sock' = IF done THEN sock ELSE "closed"
                        /\ subscribed_to_headers' =
                                IF done THEN subscribed_to_headers ELSE d.subscribed_to_headers
                        /\ subscribed' = IF done THEN subscribed ELSE d.subscribed
                        /\ recv_buffer' = IF done THEN recv_buffer ELSE <<>>
                        /\ nsent' = IF done THEN nsent ELSE 0
                        /\ chain_changed' = IF done THEN FALSE ELSE chain_changed
                        /\ sent_header' =
                                IF ~done THEN None
                                ELSE IF first # <<>> THEN node_tip ELSE sent_header
    /\ UNCHANGED <<printed_error_msg, protocol_version, are_headers_raw, line, node_tip, mempool, search,
                   node_history, txid_blockhash_map>>

---------------------------------------------------------------------------
(* The wallets the model is checked with: the requests a wallet may send   *)
(* and the scripts the server monitors.                                    *)

KnownScripts == {"s1"}
TwoScripts == {"s1", "s2"}

SessionRequests ==
    {Version(Scalar(15)), HeadersSubscribe(<<>>), ScripthashSubscribe("s1")}

\* a wallet that negotiates: versions below, inside and above the server's
\* range, as a scalar and as a [min, max] pair
VersionRequests ==
    {Version(Scalar(10)), Version(Scalar(12)), Version(Scalar(14)), Version(Scalar(15)),
     Version(Pair(11, 14)), Ping}

\* a wallet that negotiates 1.1, 1.2 or 1.4 and subscribes to headers
HeadersRequests ==
    {Version(Scalar(11)), Version(Scalar(12)), Version(Scalar(14)),
     HeadersSubscribe(<<>>), HeadersSubscribe(<<TRUE>>), HeadersSubscribe(<<FALSE>>)}

\* a wallet that subscribes to headers, of a server that monitors two scripts
PushRequests ==
    {HeadersSubscribe(<<>>)}

\* the first transaction of the genesis block, asked for by its id or by its
\* place, and the first of the block above it
TxRequests ==
    {IdFromPos(<<0, 0>>), IdFromPos(<<1, 0, TRUE>>), TransactionGet(<<1, 0>>)}

\* the block above the genesis block, there or not, and a block never there
BlockRequests ==
    {BlockHeader(1), BlockGetHeader(1), BlockHeader(NumBlocks)}

\* starts and counts about the ends of the chains and about the cap
Starts == 0..NumBlocks \cup {MAX_CHUNK_SIZE + h : h \in 0..NumBlocks}
Counts == 0..NumBlocks \cup {MAX_CHUNK_SIZE + d : d \in {-1, 0, 1}}

BlockHeadersRequests ==
    {BlockHeaders(start_height, count) : start_height \in Starts, count \in Counts}

\* the chunks of a chain of at most two chunks, and the ones after them
ChunkRequests ==
    {GetChunk(index) : index \in 0..(NumBlocks + 1)}

\* a wallet that asks for the same script again and again
SubscribeRequests ==
    {ScripthashSubscribe("s1")}

\* a wallet that writes lines that are no requests
MalformedRequests ==
    {Ping, Undecodable}

\* a wallet that subscribes and asks for something the server does not know
UnknownRequests ==
    {Unknown, HeadersSubscribe(<<>>), ScripthashSubscribe("s1")}

EncodingRequests == {Version(Scalar(13)), HeadersSubscribe(<<>>)}

MerkleRequests ==
    {GetMerkle(<<1, 0>>), Ping}

NextOf(Reqs) ==
    \/ NewTip
    \/ Activity
    \/ ListeningHeartbeat
    \/ Accept
    \/ RecvData(Reqs)
    \/ RecvFailed
    \/ RecvTimeout
    \/ TakeLine
    \/ HandleQuery
    \/ OnHeartbeatConnected

Spec == InitOf(KnownScripts) /\ [][NextOf(SessionRequests)]_vars

SpecMain == MainInit(KnownScripts) /\ [][Startup \/ NextOf(SessionRequests)]_vars

SpecVersion == InitOf(KnownScripts) /\ [][NextOf(VersionRequests)]_vars

SpecHeaders == InitOf(KnownScripts) /\ [][NextOf(HeadersRequests)]_vars

SpecPush == InitOf(TwoScripts) /\ [][NextOf(PushRequests)]_vars

SpecTx == InitOf(KnownScripts) /\ [][NextOf(TxRequests)]_vars

SpecBlock == InitOf(KnownScripts) /\ [][NextOf(BlockRequests)]_vars

\* A wallet's first line is in the buffer: one request of Reqs.
InitReadAt(Reqs, Tips, Pools) ==
    /\ mempool \in Pools
    /\ search = NoSearch
    /\ pc = "dispatch"
    /\ sock = "tls"
    /\ printed_error_msg = FALSE
    /\ node_tip \in Tips
    /\ bestblockhash = node_tip
    /\ protocol_version = 0
    /\ subscribed_to_headers = FALSE
    /\ are_headers_raw = FALSE
    /\ \E r \in Reqs : recv_buffer = Stamp(<<r, NL>>, 0)
    /\ line = <<>>
    /\ subscribed = [s \in KnownScripts |-> FALSE]
    /\ node_history \in [KnownScripts -> 0..MaxHist]
    /\ address_history = node_history
    /\ nsent = 1
    /\ chain_changed = TRUE
    /\ ev = "recv"
    /\ query = NoQuery
    /\ out = <<>>
    /\ updated_scripthashes = <<>>
    /\ txid_blockhash_map = [txid \in {} |-> None]
    /\ sent_header = None

InitRead(Reqs, Tips) == InitReadAt(Reqs, Tips, {NoPool})

\* the requests for runs of headers, each on every chain, taken and handled
SpecChain ==
    /\ InitRead(BlockHeadersRequests \cup ChunkRequests, Short \cup Tall)
    /\ [][TakeLine \/ HandleQuery]_vars

\* ... of a server that monitors this script, or no script
SpecSubscribe ==
    /\ InitOf({}) \/ InitOf(KnownScripts)
    /\ [][NextOf(SubscribeRequests)]_vars

SpecMalformed == InitOf(KnownScripts) /\ [][NextOf(MalformedRequests)]_vars

SpecUnknown == InitOf(KnownScripts) /\ [][NextOf(UnknownRequests)]_vars

\* the fee histogram of every mempool, asked for and handled
SpecFee ==
    /\ InitReadAt({FeeHistogram}, {1}, Mempools)
    /\ [][TakeLine \/ HandleQuery]_vars

---------------------------------------------------------------------------
(* The rescan helper's search for the block of a date (lines 694-720).     *)
(* Times are seconds since the epoch; the node serves a chain of heights   *)
(* 0..best whose header times rise with the height.                        *)

Day == 24 * 60 * 60

\* header times: around midnight of day 1, and hours away from any midnight
Stamps == {0, 18000, 82800, 86400, 100000, 172800}

\* the dates the user can type, as days since the epoch
Dates == 0..2

\* line 696: strptime(datestr, "%d/%m/%Y") is midnight of that day
strptime(datestr) == datestr * Day

\* the chains the node can serve: getblockheader(getblockhash(h))["time"]
Chains ==
    {c \in UNION {[0..best -> Stamps] : best \in 0..MaxBest} :
        \A h \in DOMAIN c : h > 0 => c[h - 1] < c[h]}

abs(x) == IF x < 0 THEN 0 - x ELSE x

\* line 707: the height of the best block
best_of(times) == CHOOSE h \in DOMAIN times : \A g \in DOMAIN times : g <= h

Returns(height) == [search EXCEPT !.at = "returned", !.height = height]

\* lines 696-707: the two early returns, then the bounds of the search
search_enter ==
    /\ pc = "rescan"
    /\ search.at = "called"
    /\ LET best_head == [time |-> search.times[best_of(search.times)],
                         height |-> best_of(search.times)]
           genesis_block == [time |-> search.times[0]]
       IN  search' =
             IF search.target_time > best_head.time THEN Returns(0 - 1)
             ELSE IF search.target_time < genesis_block.time THEN Returns(0)
             ELSE [search EXCEPT !.at = "loop", !.first_height = 0,
                                 !.last_height = best_head.height]
    /\ UNCHANGED server_vars

\* lines 708-720: one round of the while loop; rounds is the parity of the
\* rounds gone through, so that a round that moves no bound is still a step
search_round ==
    /\ pc = "rescan"
    /\ search.at = "loop"
    /\ LET m == (search.first_height + search.last_height) \div 2
           m_header == [time |-> search.times[m], height |-> m]
           m_time_diff == m_header.time - search.target_time
           again == [search EXCEPT !.rounds = (search.rounds + 1) % 2]
       IN  search' =
             IF abs(m_time_diff) < 60 * 60 * 2 THEN Returns(m_header.height)
             ELSE IF m_time_diff < 0 THEN [again EXCEPT !.first_height = m]
             ELSE IF m_time_diff > 0 THEN [again EXCEPT !.last_height = m]
             ELSE Returns(0 - 1)
    /\ UNCHANGED server_vars

search_for_block_height_of_date == search_enter \/ search_round

\* rescan() at line 755, with a date typed in and a node that answers
InitSearch ==
    /\ pc = "rescan"
    /\ \E c \in Chains, d \in Dates :
            search = [NoSearch EXCEPT !.at = "called", !.times = c,
                                      !.target_time = strptime(d)]
    /\ mempool = NoPool
    /\ sock = "none"
    /\ printed_error_msg = FALSE
    /\ node_tip = 1
    /\ bestblockhash = None
    /\ protocol_version = 0
    /\ subscribed_to_headers = FALSE
    /\ are_headers_raw = FALSE
    /\ recv_buffer = <<>>
    /\ line = <<>>
    /\ subscribed = [s \in {} |-> FALSE]
    /\ node_history = [s \in {} |-> 0]
    /\ address_history = node_history
    /\ nsent = 0
    /\ chain_changed = FALSE
    /\ ev = "started"
    /\ query = NoQuery
    /\ out = <<>>
    /\ updated_scripthashes = <<>>
    /\ txid_blockhash_map = [txid \in {} |-> None]
    /\ sent_header = None

SpecSearch == InitSearch /\ [][search_for_block_height_of_date]_vars

\* The helper is one thread that runs the loop round after round.
SpecSearchLive == SpecSearch /\ WF_vars(search_for_block_height_of_date)

\* main() from its start, with a wallet that subscribes to headers only
SpecStart == MainInit(KnownScripts) /\ [][Startup \/ NextOf(PushRequests)]_vars

\* The loop of lines 645-652 goes round for ever, and a node that becomes
\* ready answers one of its reads.
SpecStartLive == SpecStart /\ SF_vars(Startup /\ ev' = "started")

\* a wallet that subscribes to headers before and after it negotiates 1.3:
\* structured headers before, raw ones after
SpecEncoding == InitOf(KnownScripts) /\ [][NextOf(EncodingRequests)]_vars

SpecMerkle == InitOf(KnownScripts) /\ [][NextOf(MerkleRequests)]_vars

---------------------------------------------------------------------------
(* C1.  A session that ends by read EOF, by an I/O error of the socket or  *)
(* by a refused version negotiation leaves the server back in accept with  *)
(* the socket closed; and whenever the server waits in accept,             *)
(* subscribed_to_headers is false, no script is subscribed and no wallet   *)
(* socket is open.                                                         *)

SessionEndings == {"eof", "recv_error", "refused", "malformed", "write_failed"}

C1_AcceptingIsClean ==
    /\ ev \in SessionEndings => pc = "accept" /\ sock = "closed"
    /\ pc = "accept" =>
        /\ ~subscribed_to_headers
        /\ \A s \in DOMAIN subscribed : ~subscribed[s]
        /\ sock # "tls"

\* a version negotiation was refused and the server is accepting again
C1_RefusedAndAccepting ==
    /\ ev = "refused"
    /\ query.method = "server.version"
    /\ pc = "accept"
    /\ sock = "closed"

(* C2.  Every request line that parses gets a response or an error object *)
(* on its connection, whatever its parameters and whatever the node        *)
(* answers, unless an I/O failure intervenes (a failed or timed-out write, *)
(* or the ConnectionRefusedError of a refused negotiation); no other       *)
(* exception leaves the session loop: the server never stops.              *)

IOFailures == {"write_failed", "write_timeout", "refused"}

C2_EveryRequestAnswered ==
    query # NoQuery =>
        /\ pc # "crashed"
        /\ \/ ev = "replied" /\ Len(out) = 1 /\ out[1].id = query.id
           \/ ev \in IOFailures

(* C3.  Every complete line received in a session is dispatched, once and  *)
(* in arrival order, and a response is written when its request is handled, *)
(* before the next line is taken: whenever the server goes back to wait in  *)
(* recv, no complete line is left in the receive buffer, and what a         *)
(* handler writes is the one answer to the request it handled.             *)

C3_EveryLineDispatched ==
    /\ pc = "recv" => find(recv_buffer) = 0
    /\ query # NoQuery =>
            \/ out = <<>>
            \/ Len(out) = 1 /\ ~IsUpdate(out[1]) /\ out[1].id = query.id

(* C4.  An update (a message without id) is written only by a connected    *)
(* heartbeat, and a connected heartbeat starts only from a timeout of recv, *)
(* never after a request line was taken and before its response was        *)
(* written.                                                                *)

C4_HeartbeatOnlyFromRecv ==
    /\ \A i \in 1..Len(out) : IsUpdate(out[i]) =>
            query = NoQuery /\ (HeartbeatDone \/ ev = "write_failed")
    /\ pc = "heartbeat" => ev = "recv_timeout" /\ query = NoQuery

(* C5.  server.version with a scalar v (client_min = client_max = v) or a  *)
(* [client_min, client_max] pair negotiates min(client_max, 1.4); below    *)
(* max(client_min, 1.1) the session is closed without a reply, otherwise   *)
(* the reply is [server_name, negotiated] and the session stays open.      *)

C5_VersionNegotiated ==
    query.method = "server.version" =>
        LET v == query.params[2]
            client_min == IF v.list THEN v.min ELSE v.v
            client_max == IF v.list THEN v.max ELSE v.v
            negotiated == Min(client_max, SERVER_PROTOCOL_VERSION_MAX)
        IN  IF negotiated < Max(client_min, SERVER_PROTOCOL_VERSION_MIN)
            THEN ev = "refused" /\ out = <<>> /\ pc = "accept" /\ sock = "closed"
            ELSE \/ /\ ev = "replied"
                    /\ out = <<Response(query, <<"ElectrumPersonalServer", negotiated>>)>>
                    /\ protocol_version = negotiated
                    /\ sock = "tls"
                 \/ ev \in {"write_failed", "write_timeout"}

(* C6.  After blockchain.headers.subscribe is handled, the wallet is        *)
(* subscribed to headers and are_headers_raw is true under protocol 1.4,   *)
(* what the request asked for under 1.2 and 1.3, and false under 1.1,      *)
(* whatever was handled before; the reply is the header of the current tip *)
(* in that encoding.                                                       *)

C6_RawHeadersPerProtocol ==
    (query.method = "blockchain.headers.subscribe" /\ ev = "replied") =>
        /\ subscribed_to_headers
        /\ protocol_version = 14 => are_headers_raw
        /\ (protocol_version \in {12, 13} /\ Len(query.params) > 0) =>
                are_headers_raw = query.params[1]
        /\ protocol_version = 11 => ~are_headers_raw
        /\ out = <<Response(query, get_block_header(node_tip, are_headers_raw))>>

(* C7.  A connected heartbeat pushes blockchain.headers.subscribe exactly  *)
(* when the node's best block hash differs from the stored bestblockhash   *)
(* and the wallet is subscribed to headers; the push comes first and       *)
(* carries the header of the node's current tip in the session's encoding. *)
(* A heartbeat whose write fails pushes nothing the rule does not allow.   *)

HeadersPushes(written) == {i \in 1..Len(written) : IsHeadersUpdate(written[i])}

C7_HeadersPushIffNewTip ==
    [][pc = "heartbeat" =>
        LET tip_differs == bestblockhash # node_tip
            pushes == HeadersPushes(out')
        IN  /\ pushes # {} =>
                /\ tip_differs /\ subscribed_to_headers
                /\ pushes = {1}
                /\ out'[1] = HeadersUpdate(get_block_header(node_tip, are_headers_raw))
            /\ (HeartbeatDone' /\ tip_differs /\ subscribed_to_headers) => pushes # {}
            /\ HeartbeatDone' => bestblockhash' = node_tip]_vars

C7_RawTipPushed ==
    /\ HeartbeatDone
    /\ out = <<HeadersUpdate(get_block_header(node_tip, TRUE))>>
    /\ subscribed_to_headers

(* C8.  A connected heartbeat pushes blockchain.scripthash.subscribe only  *)
(* for a script that the polling step reported as changed and that the     *)
(* wallet subscribed to in this session: a changed script that is not      *)
(* subscribed is not pushed.                                               *)

C8_PushOnlySubscribed ==
    HeartbeatDone =>
        \A i \in 1..Len(out) : IsScripthashUpdate(out[i]) =>
            /\ \E j \in 1..Len(updated_scripthashes) : updated_scripthashes[j] = out[i].params[1]
            /\ subscribed[out[i].params[1]]

(* C9.  Within one connected heartbeat the headers push, if any, is        *)
(* written before every scripthash push, and the scripthash pushes follow  *)
(* the order in which the polling step returned the changed scripts.       *)

C9_PushOrder ==
    (out # <<>> /\ IsUpdate(out[1])) =>
        LET first == IF IsHeadersUpdate(out[1]) THEN 1 ELSE 0
        IN  /\ Len(out) - first <= Len(updated_scripthashes)
            /\ \A i \in (first + 1)..Len(out) :
                /\ IsScripthashUpdate(out[i])
                /\ out[i].params[1] = updated_scripthashes[i - first]

C9_HeaderThenTwoScripts ==
    /\ HeartbeatDone
    /\ Len(out) = 3
    /\ IsHeadersUpdate(out[1])
    /\ out[2].params[1] = "s2"
    /\ out[3].params[1] = "s1"

(* C10.  A connected heartbeat that follows a completed connected          *)
(* heartbeat, with no new tip and no change of a monitored script's        *)
(* history in between, writes nothing, whatever requests were handled in   *)
(* between.                                                                *)

C10_NoChangeNoPush ==
    [][(pc = "heartbeat" /\ ~chain_changed) => out' = <<>>]_vars

C10_QuietWhileSubscribed ==
    /\ ev = "quiet_heartbeat"
    /\ subscribed_to_headers
    /\ subscribed["s1"]
    /\ out = <<>>

(* C11.  Duplicate header pushes are suppressed: within a session a        *)
(* blockchain.headers.subscribe push never carries the block of the header *)
(* message last written to this wallet, be it the reply to                 *)
(* blockchain.headers.subscribe or an earlier push.                        *)

C11_NoDuplicateHeaderPush ==
    [][(pc = "heartbeat" /\ HeadersPushes(out') # {}) => node_tip # sent_header]_vars

(* C12.  Session state is per connection: when a session is accepted,      *)
(* protocol_version, are_headers_raw and txid_blockhash_map are as they    *)
(* are at load, so that nothing an earlier wallet negotiated or learned     *)
(* (a refused negotiation included) reaches the next wallet.               *)

C12_SessionStateFresh ==
    ev = "connected" =>
        /\ protocol_version = 0
        /\ ~are_headers_raw
        /\ DOMAIN txid_blockhash_map = {}

(* C13.  The server has at most one wallet session at a time: a connection *)
(* is accepted, turned away or failed only while no wallet is connected,   *)
(* the listening heartbeat runs only with no wallet connected and the      *)
(* connected heartbeat only with one, so the two never run in one state.   *)

AcceptOutcomes == {"connected", "not_allowed", "turned_away", "accept_failed"}

C13_OneSessionAtATime ==
    [][/\ ev' \in AcceptOutcomes => sock # "tls" /\ pc = "accept"
       /\ ev' = "listening_heartbeat" => sock # "tls" /\ pc = "accept"
       /\ (pc = "heartbeat" /\ pc' # "heartbeat") => sock = "tls"
       /\ sock' = "tls" => pc' \in {"recv", "dispatch", "handle", "heartbeat"}]_vars

C13_HeartbeatWithWallet ==
    /\ HeartbeatDone
    /\ sock = "tls"
    /\ pc = "recv"
    /\ nsent = MaxReq

---------------------------------------------------------------------------
(* C14.  blockchain.transaction.get always answers, and the session goes   *)
(* on: with the hex of the wallet's transaction when gettransaction finds  *)
(* the txid, with what getrawtransaction returns for the hinted block hash *)
(* when gettransaction misses and the hint map holds the txid, and with    *)
(* the error "txid not found" in every other case, a hinted                *)
(* getrawtransaction that fails included.  (A reply the socket could not   *)
(* take is the I/O failure of C1, not a case of this claim.)               *)

TransactionGetReplies(q) ==
    {Response(q, gettransaction(q.params[1]).hex),
     Error(q, [message |-> "txid not found"])}
    \cup {Response(q, getrawtransaction(q.params[1], txid_blockhash_map[t])) :
                t \in {q.params[1]} \cap DOMAIN txid_blockhash_map}

C14_TransactionGetAnswers ==
    query.method = "blockchain.transaction.get" =>
        \/ ev \in IOFailures
        \/ /\ ev = "replied"
           /\ out[1] \in TransactionGetReplies(query)
           /\ sock = "tls"

---------------------------------------------------------------------------
(* C15.  The hint map is written by blockchain.transaction.id_from_pos and *)
(* by nothing else; when that request has resolved a txid the map holds    *)
(* for it the hash of the block at the height asked; and a                 *)
(* blockchain.transaction.get for a txid the map holds is answered either  *)
(* from the wallet or with what getrawtransaction returns for exactly the  *)
(* hash the map holds.                                                     *)

IsResult(msg) == "result" \in DOMAIN msg

Resolved(q, result) ==
    IF Len(q.params) > 2 /\ q.params[3] THEN result.tx_hash ELSE result

C15_HintMapFromIdFromPos ==
    [][/\ txid_blockhash_map' # txid_blockhash_map =>
            pc = "handle" /\ query'.method = "blockchain.transaction.id_from_pos"
       /\ (/\ pc = "handle"
           /\ query'.method = "blockchain.transaction.id_from_pos"
           /\ ev' = "replied"
           /\ IsResult(out'[1])) =>
                LET txid == Resolved(query', out'[1].result)
                IN  /\ txid \in DOMAIN txid_blockhash_map'
                    /\ txid_blockhash_map'[txid] = getblockhash(query'.params[1])
       /\ (/\ pc = "handle"
           /\ query'.method = "blockchain.transaction.get"
           /\ ev' = "replied"
           /\ query'.params[1] \in DOMAIN txid_blockhash_map) =>
                LET txid == query'.params[1]
                IN  out'[1] \in
                        {Response(query', gettransaction(txid).hex),
                         Response(query', getrawtransaction(txid, txid_blockhash_map[txid]))}
      ]_vars

C15_HintUsed ==
    /\ query.method = "blockchain.transaction.get"
    /\ query.params = <<<<1, 0>>>>
    /\ ev = "replied"
    /\ txid_blockhash_map = (<<1, 0>> :> getblockhash(0))
    /\ out = <<Response(query, getrawtransaction(<<1, 0>>, getblockhash(0)))>>

---------------------------------------------------------------------------
(* C16.  blockchain.transaction.get_merkle always answers with a result,   *)
(* the proof or the invalid proof {block_height: 1, pos: 0,                *)
(* merkle: [txid]}, and the session goes on, whatever fails in the         *)
(* computation of the proof: the txid unknown to the wallet, the           *)
(* transaction unconfirmed, gettxoutproof failing, the converter rejecting *)
(* the blob, the recomputed root differing.  (A reply the socket could not *)
(* take is the I/O failure of C1, not a case of this claim.)               *)

MerkleProof(txid) ==
    [block_height |-> block_height(txid[1]), pos |-> txid[2],
     merkle |-> <<"branch", gettxoutproof(txid, txid[1])>>]

C16_MerkleFailureIsInvalidProof ==
    query.method = "blockchain.transaction.get_merkle" =>
        \/ ev \in IOFailures
        \/ /\ ev = "replied"
           /\ out[1] \in {Response(query, MerkleProof(query.params[1])),
                          Response(query, InvalidProof(query.params[1]))}
           /\ sock = "tls"

---------------------------------------------------------------------------
(* C17.  blockchain.block.header and blockchain.block.get_header asked for *)
(* a height the node has no block for answer with an error object of code  *)
(* -1 that carries the id of the request, and with nothing else; the       *)
(* state of the session is what it was and the session goes on with the    *)
(* next request.  (A reply the socket could not take is the I/O failure of *)
(* C1, not a case of this claim.)                                          *)

session_state ==
    <<protocol_version, subscribed_to_headers, are_headers_raw, bestblockhash,
      txid_blockhash_map, subscribed, address_history>>

C17_OutOfRangeIsError ==
    [][(/\ pc = "handle"
        /\ query'.method \in {"blockchain.block.header", "blockchain.block.get_header"}
        /\ ~HasBlock(query'.params[1])
        /\ ev' \notin IOFailures) =>
            /\ ev' = "replied"
            /\ Len(out') = 1
            /\ ~IsResult(out'[1])
            /\ out'[1].error.code = -1
            /\ out'[1].id = query'.id
            /\ session_state' = session_state
            /\ sock' = "tls"
            /\ pc' = AfterLine(recv_buffer)
      ]_vars

C17_HeightOutOfRange ==
    /\ query.method = "blockchain.block.get_header"
    /\ query.params = <<1>>
    /\ node_tip = 1
    /\ ev = "replied"
    /\ out = <<Error(query, OutOfRange(1))>>
    /\ pc = "dispatch"

---------------------------------------------------------------------------
(* C18.  blockchain.block.headers(start, count) answers {hex, count: n,    *)
(* max: 2016}: for a start from 0 to the height of the tip, n is the least *)
(* of count, 2016 and tip height - start + 1, and hex is the headers of    *)
(* the heights start .. start + n - 1 in ascending order; for a start      *)
(* above the tip, hex is empty and n is 0, and the answer is a result.     *)

HeadersOfHeights(start, n) ==
    [k \in 1..n |-> get_block_header(getblockhash(start + k - 1), TRUE).hex]

C18_BlockHeadersRange ==
    (query.method = "blockchain.block.headers" /\ ev = "replied") =>
        LET start == query.params[1]
            count == query.params[2]
            n == IF start \in 0..tip_height
                 THEN Min(Min(count, 2016), tip_height - start + 1)
                 ELSE 0
        IN  out = <<Response(query, [hex |-> HeadersOfHeights(start, n),
                                    count |-> n, max |-> 2016])>>

C18_CapBinds ==
    /\ query.method = "blockchain.block.headers"
    /\ query.params = <<1, 2017>>
    /\ tip_height = 2017
    /\ ev = "replied"
    /\ out[1].result.count = 2016
    /\ Len(out[1].result.hex) = 2016

---------------------------------------------------------------------------
(* C19.  blockchain.block.get_chunk(index) answers the headers of the      *)
(* heights start .. start + count - 1 and no other, in ascending order,    *)
(* where next = tip height + 1, start = min(index * 2016, next) and        *)
(* count = min(next - start, 2016); for an index past the tip the answer   *)
(* is the empty string.                                                    *)

C19_ChunkRange ==
    (query.method = "blockchain.block.get_chunk" /\ ev = "replied") =>
        LET index == query.params[1]
            next == tip_height + 1
            start == Min(index * 2016, next)
            count == Min(next - start, 2016)
        IN  /\ out = <<Response(query, HeadersOfHeights(start, count))>>
            /\ index * 2016 > tip_height => out[1].result = <<>>

C19_SecondChunk ==
    /\ query.method = "blockchain.block.get_chunk"
    /\ query.params = <<1>>
    /\ tip_height = 2017
    /\ ev = "replied"
    /\ out[1].result = HeadersOfHeights(2016, 2)

---------------------------------------------------------------------------
(* C20.  blockchain.scripthash.subscribe for a script the server monitors  *)
(* marks the script subscribed and answers the status of its history as    *)
(* the monitor holds it; for any other script it answers the status of the *)
(* empty history and marks nothing.  The same request again, after the     *)
(* first one of the session, leaves the subscriptions as they are, and     *)
(* gets the same answer as long as nothing happened to the script: the     *)
(* history the monitor holds changes only in a heartbeat that finds the    *)
(* node's history different.  A connected heartbeat that finds no history  *)
(* different pushes no status, subscribed or not.                          *)

C20_ScripthashSubscribe ==
    [][/\ (/\ pc = "handle"
           /\ query'.method = "blockchain.scripthash.subscribe"
           /\ ev' = "replied") =>
                LET scrhash == query'.params[1]
                    known == scrhash \in DOMAIN address_history
                IN  /\ out' = <<Response(query',
                                    IF known THEN get_status_electrum(address_history[scrhash])
                                    ELSE get_status_electrum(0))>>
                    /\ subscribed' = [s \in DOMAIN subscribed |-> subscribed[s] \/ s = scrhash]
                    /\ DOMAIN subscribed' = DOMAIN address_history
                    /\ query'.id > 1 => subscribed' = subscribed
                    /\ address_history' = address_history
       /\ address_history' # address_history =>
                /\ pc \in {"heartbeat", "accept"}
                /\ node_history # address_history
                /\ address_history' = node_history
       /\ (pc = "heartbeat" /\ node_history = address_history) =>
                \A i \in 1..Len(out') : ~IsScripthashUpdate(out'[i])
      ]_vars

C20_AskedAgain ==
    /\ query.method = "blockchain.scripthash.subscribe"
    /\ query.params = <<"s1">>
    /\ query.id = 2
    /\ ev = "replied"
    /\ node_history = address_history
    /\ subscribed = [s \in KnownScripts |-> TRUE]
    /\ out = <<Response(query, get_status_electrum(address_history["s1"]))>>

---------------------------------------------------------------------------
(* C21.  A line that is not valid JSON ends the session as an I/O failure  *)
(* does: nothing is written for it, the lines behind it in the buffer are  *)
(* dropped undispatched, the cleanup of a disconnect has run, and the      *)
(* server is accepting again.                                              *)

C21_MalformedEndsSession ==
    [][(pc = "handle" /\ (~decodes(line) \/ ~Parses(line))) =>
            /\ ev' = "malformed"
            /\ out' = <<>>
            /\ recv_buffer' = <<>>
            /\ sock' = "closed"
            /\ ~subscribed_to_headers'
            /\ \A s \in DOMAIN subscribed' : ~subscribed'[s]
            /\ pc' = "accept"
      ]_vars

---------------------------------------------------------------------------
(* C22.  A request for a method the server does not know is not answered:  *)
(* nothing is written, the protocol version, the header encoding, the      *)
(* headers subscription, the best block hash, the hint map and the         *)
(* subscriptions of the scripts are what they were, the socket stays open  *)
(* and the rest of the buffer is dispatched next.                          *)

C22_UnknownMethodIgnored ==
    [][(/\ pc = "handle"
        /\ Parses(line)
        /\ line[1].method = Unknown.method) =>
            /\ ev' = "no_reply"
            /\ query' = line[1]
            /\ out' = <<>>
            /\ session_state' = session_state
            /\ sock' = "tls"
            /\ recv_buffer' = recv_buffer
            /\ pc' = AfterLine(recv_buffer)
      ]_vars

C22_UnknownWhileSubscribed ==
    /\ query.method = Unknown.method
    /\ query.id = 2
    /\ ev = "no_reply"
    /\ subscribed["s1"]
    /\ sock = "tls"
    /\ pc = "dispatch"

---------------------------------------------------------------------------
(* C23.  A peer whose address is in no network of the allow-list is closed *)
(* with nothing written to it: the socket is never wrapped in TLS, the     *)
(* server stays in the accept loop, so no line of the peer is dispatched   *)
(* and no connected heartbeat runs for it, and the state of the session    *)
(* and of the subscriptions is what it was.                                *)

C23_OutsideAllowListClosed ==
    [][ev' = "not_allowed" =>
            /\ pc = "accept"
            /\ out' = <<>>
            /\ query' = NoQuery
            /\ sock' = "closed"
            /\ pc' = "accept"
            /\ recv_buffer' = <<>> /\ line' = <<>>
            /\ session_state' = session_state
            /\ nsent' = nsent
      ]_vars

C23_PeerTurnedAway ==
    /\ ev = "not_allowed"
    /\ sock = "closed"
    /\ pc = "accept"
    /\ DOMAIN subscribed = KnownScripts

---------------------------------------------------------------------------
(* C24.  In the list mempool.get_fee_histogram answers, the fee rate falls *)
(* strictly from each pair to the next; the size of a pair is the size of  *)
(* the transactions whose rate is the pair's or above it and below the     *)
(* rate of the pair before, and that size plus the carry of the pairs      *)
(* before is more than the capacity of the pair's bin: 100000 for the      *)
(* first bin, a tenth more for each next one, the carry being what the     *)
(* pairs before held above their capacities.  A mempool of at most 100000  *)
(* bytes gives the empty list.                                             *)

RECURSIVE Capacity(_)
Capacity(k) == IF k = 1 THEN 100000 ELSE (Capacity(k - 1) * 11) \div 10

RECURSIVE Carry(_, _)
Carry(res, k) == IF k = 1 THEN 0 ELSE Carry(res, k - 1) + res[k - 1][2] - Capacity(k - 1)

Accumulated(pool, lo, hi) ==
    sum_of_sizes(pool, {t \in DOMAIN pool :
                            fee_rate(pool[t]) >= lo /\ (hi = None \/ fee_rate(pool[t]) < hi)})

C24_FeeHistogramMonotone ==
    (query.method = "mempool.get_fee_histogram" /\ ev = "replied") =>
        LET res == out[1].result
        IN  /\ \A k \in 1..(Len(res) - 1) : res[k][1] > res[k + 1][1]
            /\ \A k \in 1..Len(res) :
                    /\ \E t \in DOMAIN mempool : fee_rate(mempool[t]) = res[k][1]
                    /\ res[k][2] =
                            Accumulated(mempool, res[k][1], IF k = 1 THEN None ELSE res[k - 1][1])
                    /\ res[k][2] + Carry(res, k) > Capacity(k)
            /\ sum_of_sizes(mempool, DOMAIN mempool) <= 100000 => res = <<>>

C24_CarryFillsSecondBin ==
    /\ query.method = "mempool.get_fee_histogram"
    /\ ev = "replied"
    /\ Len(out[1].result) = 2
    /\ out[1].result[1][2] = 120000
    /\ out[1].result[2][2] = 110000

---------------------------------------------------------------------------
(* C25.  bestblockhash is what the node answered to the last read that     *)
(* stored it: it changes only in the startup read and in the tip check of  *)
(* a connected heartbeat, and there it becomes the node's best block hash  *)
(* of that moment.  Handling a request, a listening heartbeat and the      *)
(* cleanup of a disconnect leave it as it is.                              *)

C25_BestBlockHashFromNode ==
    [][/\ bestblockhash' # bestblockhash =>
            /\ \/ pc = "startup" /\ ev' = "started"
               \/ pc = "heartbeat" /\ ev' # "uncaught"
            /\ bestblockhash' = node_tip
       /\ (pc = "startup" /\ pc' = "accept") => bestblockhash' = node_tip
       /\ (pc = "heartbeat" /\ ev' # "uncaught") => bestblockhash' = node_tip
       /\ (pc = "handle" \/ ev' = "listening_heartbeat" \/ (pc = "recv" /\ pc' = "accept")) =>
            bestblockhash' = bestblockhash
      ]_vars

C25_TipCheckStoredNewTip ==
    /\ HeartbeatDone
    /\ bestblockhash = node_tip
    /\ bestblockhash # getblockhash(0)
    /\ printed_error_msg

---------------------------------------------------------------------------
(* C26.  At startup the read of the best block hash is tried again as long *)
(* as the node answers with an error; the error is logged for the first    *)
(* failed read and for no later one; the server has no socket and no best  *)
(* block hash before a read succeeds, and leaves the loop with the node's  *)
(* answer as soon as one does; with a node that becomes ready the loop is  *)
(* left in the end.                                                        *)

C26_StartupRetries ==
    /\ [](pc = "startup" => sock = "none" /\ bestblockhash = None)
    /\ [](pc # "startup" => bestblockhash # None)
    /\ [][/\ ev' = "startup_error_logged" => ~printed_error_msg /\ printed_error_msg'
          /\ printed_error_msg => printed_error_msg'
          /\ ev' \in {"startup_error_logged", "startup_retry"} =>
                pc = "startup" /\ pc' = "startup"
          /\ (pc = "startup" /\ ev' = "started") =>
                pc' = "accept" /\ bestblockhash' = node_tip]_vars
    /\ <>(pc # "startup")

C26_StartedAfterRetries ==
    /\ ev = "started"
    /\ pc = "accept"
    /\ printed_error_msg
    /\ bestblockhash = node_tip

---------------------------------------------------------------------------
(* C27.  The encoding flag changes only while blockchain.headers.subscribe *)
(* is handled; the header in the answer to that request is raw exactly     *)
(* when the flag, as the handler leaves it, says so; and every header a    *)
(* connected heartbeat pushes is raw exactly when the flag says so, the    *)
(* heartbeat leaving the flag alone.  So a push has the encoding of the    *)
(* answer to the latest blockchain.headers.subscribe of its session.       *)

IsRaw(header) == "hex" \in DOMAIN header

C27_PushEncodingAsSubscribed ==
    [][/\ are_headers_raw' # are_headers_raw =>
            pc = "handle" /\ query'.method = "blockchain.headers.subscribe"
       /\ (/\ pc = "handle"
           /\ query'.method = "blockchain.headers.subscribe"
           /\ ev' = "replied") =>
                IsRaw(out'[1].result) = are_headers_raw'
       /\ pc = "heartbeat" =>
            /\ are_headers_raw' = are_headers_raw
            /\ \A i \in 1..Len(out') : IsHeadersUpdate(out'[i]) =>
                    IsRaw(out'[i].params[1]) = are_headers_raw
      ]_vars

C27_RawPushAfterRawAnswer ==
    /\ HeartbeatDone
    /\ protocol_version = 13
    /\ are_headers_raw
    /\ nsent = MaxReq
    /\ out = <<HeadersUpdate(get_block_header(node_tip, TRUE))>>
    /\ IsRaw(out[1].params[1])

---------------------------------------------------------------------------
(* C28.  The date search returns, for every chain and every date; a date   *)
(* after the best block's time gives -1, a date before the genesis block's *)
(* time gives 0, and any other date gives the height of a block whose time *)
(* is within two hours of the date.                                        *)

C28_DateSearchTerminates ==
    /\ <>(search.at = "returned")
    /\ [](search.at = "returned" =>
            LET times == search.times
                target_time == search.target_time
            IN  IF target_time > times[best_of(times)] THEN search.height = 0 - 1
                ELSE IF target_time < times[0] THEN search.height = 0
                ELSE /\ search.height \in DOMAIN times
                     /\ abs(times[search.height] - target_time) <= 60 * 60 * 2)

====
